---- MODULE Spec2Model ----
(***************************************************************************)
(* NewsLens recommendations microservice (src/recommendations.py).         *)
(*                                                                         *)
(* State: the module-level ChromaDB collection.  Operations:               *)
(* store_articles (one atomic action: everything before collection.add is  *)
(* local to the call, and collection.add is one call into the store) and   *)
(* get_recommendations, which touches the collection three times           *)
(* (count() at line 93, count() at line 100, query() at line 98) and is    *)
(* therefore modelled as three steps that a store_articles call of another *)
(* request may interleave with: the module takes no lock.                  *)
(*                                                                         *)
(* ins, qout and qviews are history variables: they record the latest call *)
(* (its arguments, the collection before it, how it ended) and are reset   *)
(* when the next call starts.  A store_articles call that runs while a     *)
(* get_recommendations call is in flight is recorded in qviews only.       *)
(*                                                                         *)
(* Strings are sequences of one-character strings, so that strip() and     *)
(* the f-string concatenation are computed.  An embedding is one integer   *)
(* coordinate; a distance is the squared L2 distance (the collection is    *)
(* created without "hnsw:space", line 22), counted in units of 1/3000, so  *)
(* that round(1 - d, 3) merges neighbouring values and no value lies on a *)
(* rounding tie (where the result would depend on the binary float).  A   *)
(* score is counted in thousandths.                                        *)
(***************************************************************************)
EXTENDS Integers, Sequences, FiniteSets

VARIABLES
    collection,       \* stored records, in insertion order
    ins,              \* what the latest store_articles call did and returned
    qpc,              \* get_recommendations: "idle" | "encoded" | "clamped" | "done"
    query_text,       \* its argument
    top_k,            \* its argument
    query_embedding,  \* model.encode([query_text]), line 96
    n_results,        \* min(top_k, collection.count()), line 100
    qout,             \* how the call ended and what it returned
    qviews            \* the values the collection took while the call ran

vars == <<collection, ins, qpc, query_text, top_k, query_embedding, n_results,
          qout, qviews>>

\* ---------------------------------------------------------------- bounds
MaxBatch == 2

\* ------------------------------------------------------------- constants
TOP_K == 5

\* --------------------------------------------------------------- strings
EmptyStr == <<>>
SP == " "

Min(a, b) == IF a <= b THEN a ELSE b

\* The characters str.strip() removes, among the ASCII characters (the alphabet
\* of the strings of this module): space, \t, \n, \r, \f, and the control
\* characters 0x0B, 0x1C, 0x1D, 0x1E, 0x1F.
Whitespace == {" ", "\t", "\n", "\r", "\f", "", "", "", "", ""}

RECURSIVE LStrip(_)
LStrip(s) ==
    IF s # <<>> /\ Head(s) \in Whitespace THEN LStrip(Tail(s)) ELSE s

RECURSIVE RStrip(_)
RStrip(s) ==
    IF s # <<>> /\ s[Len(s)] \in Whitespace
    THEN RStrip(SubSeq(s, 1, Len(s) - 1)) ELSE s

\* variant: no strip()
StripIdentity(s) == s

\* str.strip() of line 49
Strip(s) == RStrip(LStrip(s))

\* str(i) of line 54
IdStr(i) == <<"0", "1", "2", "3", "4", "5", "6", "7", "8", "9">>[i + 1]

\* ------------------------------------------------------------- articles
\* An article dict: `has` is its key set; a field outside `has` holds filler.
Keys == {"title", "description", "url", "source"}

SrcNamed  == [isDict |-> TRUE,  hasName |-> TRUE,  name |-> "TechCrunch"]
SrcNoName == [isDict |-> TRUE,  hasName |-> FALSE, name |-> ""]
SrcString == [isDict |-> FALSE, hasName |-> FALSE, name |-> ""]

\* dict.get(key, default)
Get(article, key, default) ==
    IF key \in article.has THEN article[key] ELSE default

\* title and description (white space around them), url, source {"name": ...}:
\* text "a"
ArtA ==
    [has |-> Keys, title |-> <<"\t", "a">>, description |-> <<"\r", "\n">>,
     url |-> "u1", source |-> SrcNamed]
\* no title, no url, a source that is no dict: text "b"
ArtB ==
    [has |-> {"description", "source"}, title |-> <<>>, description |-> <<"b">>,
     url |-> "", source |-> SrcString]
\* an empty title, no description, a source dict without "name": no text
ArtBlank ==
    [has |-> {"title", "url", "source"}, title |-> <<>>, description |-> <<>>,
     url |-> "u3", source |-> SrcNoName]

\* a title and a description of white space only, nothing else: no text
ArtSpace ==
    [has |-> {"title", "description"}, title |-> <<"\t">>,
     description |-> <<"\n">>, url |-> "", source |-> SrcString]

SampleArticles == {ArtA, ArtB, ArtBlank, ArtSpace}

Batches == UNION {[1..n -> SampleArticles] : n \in 0..MaxBatch}

QueryTexts == {<<"a">>, <<"b", "b">>}
TopKs == (-1..1) \cup {TOP_K}

\* lines 46-49
DerivedText(article) ==
    Strip(Get(article, "title", EmptyStr) \o <<SP>>
          \o Get(article, "description", EmptyStr))

\* lines 58-59
SourceName(article) ==
    IF "source" \in article.has /\ article.source.isDict
    THEN (IF article.source.hasName THEN article.source.name ELSE "Unknown")
    ELSE "Unknown"

\* lines 61-65
Metadata(article) ==
    [title  |-> Get(article, "title", EmptyStr),
     url    |-> Get(article, "url", ""),
     source |-> SourceName(article)]

EmptyLists == [ids |-> <<>>, documents |-> <<>>, metadatas |-> <<>>]

\* the loop of lines 45-65, from the i-th article (1-based here, str(i - 1) there)
RECURSIVE BuildLists(_, _, _)
BuildLists(articles, i, acc) ==
    IF i > Len(articles) THEN acc
    ELSE LET text == DerivedText(articles[i])
         IN  IF text = EmptyStr
             THEN BuildLists(articles, i + 1, acc)
             ELSE BuildLists(articles, i + 1,
                    [ids       |-> Append(acc.ids, IdStr(i - 1)),
                     documents |-> Append(acc.documents, text),
                     metadatas |-> Append(acc.metadatas, Metadata(articles[i]))])

\* ---------------------------------------------------------- TextEncoder
CharVal(c) == IF c = "a" THEN 1 ELSE IF c = "b" THEN 2 ELSE 0

RECURSIVE Encode(_)
\* model.encode of one text: deterministic in the text
Encode(s) == IF s = <<>> THEN 0 ELSE CharVal(Head(s)) + Encode(Tail(s))

\* model.encode(documents), line 71: one vector per text, same order
EncodeBatch(documents) == [j \in 1..Len(documents) |-> Encode(documents[j])]

\* ----------------------------------------------------------- collection
\* collection.count()
Count(coll) == Len(coll)

StoredIds(coll) == {coll[j].id : j \in 1..Len(coll)}

NewRecord(ids, documents, embeddings, metadatas, j) ==
    [id |-> ids[j], document |-> documents[j],
     embedding |-> embeddings[j], metadata |-> metadatas[j]]

\* variant: a store that appends a record whatever its id
CollectionAddAppend(coll, ids, documents, embeddings, metadatas) ==
    coll \o [j \in 1..Len(ids) |->
                NewRecord(ids, documents, embeddings, metadatas, j)]

\* collection.add, lines 73-78: a record whose id is already stored is ignored
CollectionAdd(coll, ids, documents, embeddings, metadatas) ==
    LET fresh == SelectSeq([j \in 1..Len(ids) |-> j],
                           LAMBDA j : ids[j] \notin StoredIds(coll))
    IN  coll \o [m \in 1..Len(fresh) |->
                    NewRecord(ids, documents, embeddings, metadatas, fresh[m])]

\* squared L2 distance of two embeddings
Distance(q, e) == (q - e) * (q - e)

Injective(r) == \A x, y \in DOMAIN r : r[x] = r[y] => x = y

\* collection.query, lines 98-101: the orders in which the store may return the
\* n nearest records (positions in coll); records at equal distance in any order
KnnAnswers(coll, q, n) ==
    LET m == IF n < 0 THEN 0 ELSE Min(n, Len(coll))
    IN  {r \in [1..m -> 1..Len(coll)] :
            /\ Injective(r)
            /\ \A x \in 1..m : \A y \in 1..m :
                  x < y => Distance(q, coll[r[x]].embedding)
                              <= Distance(q, coll[r[y]].embedding)
            /\ \A x \in 1..m : \A p \in 1..Len(coll) :
                  (\A y \in 1..m : r[y] # p)
                     => Distance(q, coll[r[x]].embedding)
                            <= Distance(q, coll[p].embedding)}

\* variant: a store that accepts any n_results
NResultsAccepted(n) == TRUE

\* the store's check of n_results in collection.query, line 100
NResultsValid(n) == n > 0

\* variant: the distance reported as the score
ScoreAsDistance(d) == d \div 3

\* round(1 - d, 3), line 124, in thousandths; d in units of 1/3000: the integer
\* nearest to (3000 - d) / 3, which is never half-way between two integers
Score(d) == (2 * (3000 - d) + 3) \div 6

\* lines 103-127
Recommendations(coll, q, r) ==
    [x \in 1..Len(r) |->
        [title  |-> coll[r[x]].metadata.title,
         url    |-> coll[r[x]].metadata.url,
         source |-> coll[r[x]].metadata.source,
         score  |-> Score(Distance(q, coll[r[x]].embedding))]]

\* ------------------------------------------------------- store_articles
RetNone   == [kind |-> "None",   v |-> 0]
RetRaised == [kind |-> "raised", v |-> 0]

\* variant: return len(ids)
StoreReturnCount(n) == [kind |-> "int", v |-> n]

\* the value store_articles returns: it has no return statement with a value
\* (lines 38, 68 and the end of the body, line 79); n is len(ids)
StoreReturn(n) == RetNone

\* variant: the records stored whether or not the encoder returned
CollectionAfterStoreEager(coll, lists, encOk) ==
    CollectionAdd(coll, lists.ids, lists.documents,
                  EncodeBatch(lists.documents), lists.metadatas)

\* lines 70-78: the collection after the call, given the lists of lines 40-65
\* (not empty) and whether model.encode returned or raised
CollectionAfterStore(coll, lists, encOk) ==
    IF encOk
    THEN CollectionAdd(coll, lists.ids, lists.documents,
                       EncodeBatch(lists.documents), lists.metadatas)
    ELSE coll

NoInsert ==
    [called |-> FALSE, articles |-> <<>>, before |-> <<>>, ret |-> RetNone,
     encodeCalls |-> 0, encFailed |-> FALSE, printed |-> -1]

NoQuery ==
    [ret |-> "pending", recommendations |-> <<>>, encodeCalls |-> 0,
     encFailed |-> FALSE, count0 |-> 0]

\* store_articles(articles), lines 31-79, on collection coll; encOk: model.encode
\* returns (or raises).  The collection after the call and what the call did.
StoreCall(coll, articles, encOk) ==
    LET lists == BuildLists(articles, 1, EmptyLists)
        obs   == [called |-> TRUE, articles |-> articles, before |-> coll,
                  ret |-> RetNone, encodeCalls |-> 0, encFailed |-> FALSE,
                  printed |-> -1]
    IN  IF articles = <<>> \/ lists.ids = <<>>
        THEN [collection |-> coll,
              obs |-> [obs EXCEPT !.ret = StoreReturn(0)]]
        ELSE [collection |-> CollectionAfterStore(coll, lists, encOk),
              obs |-> IF encOk
                      THEN [obs EXCEPT !.encodeCalls = 1,
                                       !.printed = Len(lists.ids),
                                       !.ret = StoreReturn(Len(lists.ids))]
                      ELSE [obs EXCEPT !.encodeCalls = 1,
                                       !.encFailed = TRUE,
                                       !.ret = RetRaised]]

InFlight == qpc \in {"encoded", "clamped"}

\* a store_articles call while no get_recommendations call is in flight
Insert ==
    /\ ~InFlight
    /\ \E articles \in Batches : \E encOk \in BOOLEAN :
          LET c == StoreCall(collection, articles, encOk)
          IN  /\ collection' = c.collection
              /\ ins' = c.obs
    /\ qpc' = "idle"
    /\ query_text' = <<>>
    /\ top_k' = TOP_K
    /\ query_embedding' = 0
    /\ n_results' = 0
    /\ qout' = NoQuery
    /\ qviews' = {}

\* a store_articles call of another request while get_recommendations runs
InsertDuringQuery ==
    /\ InFlight
    /\ \E articles \in Batches : \E encOk \in BOOLEAN :
          collection' = StoreCall(collection, articles, encOk).collection
    /\ qviews' = qviews \cup {collection'}
    /\ UNCHANGED <<ins, qpc, query_text, top_k, query_embedding, n_results, qout>>

\* -------------------------------------------------- get_recommendations
\* variant: no empty-index return
IndexEmptyNever(coll) == FALSE

\* collection.count() == 0, line 93
IndexEmpty(coll) == Count(coll) = 0

\* lines 87-96: the call, the empty-index return, the encoding of the query
QStart(text, k, encOk) ==
    /\ ~InFlight
    /\ query_text' = text
    /\ top_k' = k
    /\ n_results' = 0
    /\ qviews' = {collection}
    /\ ins' = NoInsert
    /\ IF IndexEmpty(collection)
       THEN /\ qpc' = "done"
            /\ query_embedding' = 0
            /\ qout' = [NoQuery EXCEPT !.ret = "returned",
                                       !.count0 = Count(collection)]
       ELSE IF encOk
       THEN /\ qpc' = "encoded"
            /\ query_embedding' = Encode(text)
            /\ qout' = [NoQuery EXCEPT !.encodeCalls = 1,
                                       !.count0 = Count(collection)]
       ELSE /\ qpc' = "done"
            /\ query_embedding' = 0
            /\ qout' = [NoQuery EXCEPT !.ret = "raised", !.encodeCalls = 1,
                                       !.encFailed = TRUE,
                                       !.count0 = Count(collection)]
    /\ UNCHANGED collection

QueryCall == \E text \in QueryTexts : \E k \in TopKs : \E encOk \in BOOLEAN :
                 QStart(text, k, encOk)

\* line 100: n_results = min(top_k, collection.count()), evaluated before the
\* call of collection.query
QClamp ==
    /\ qpc = "encoded"
    /\ n_results' = Min(top_k, Count(collection))
    /\ qpc' = "clamped"
    /\ UNCHANGED <<collection, ins, query_text, top_k, query_embedding, qout,
                   qviews>>

\* lines 98-127: collection.query and the result list
QQuery ==
    /\ qpc = "clamped"
    /\ qpc' = "done"
    /\ IF NResultsValid(n_results)
       THEN \E r \in KnnAnswers(collection, query_embedding, n_results) :
               qout' = [qout EXCEPT !.ret = "returned",
                           !.recommendations =
                               Recommendations(collection, query_embedding, r)]
       ELSE qout' = [qout EXCEPT !.ret = "raised"]
    /\ UNCHANGED <<collection, ins, query_text, top_k, query_embedding,
                   n_results, qviews>>

\* ---------------------------------------------------------------- system
Init ==
    /\ collection = <<>>
    /\ ins = NoInsert
    /\ qpc = "idle"
    /\ query_text = <<>>
    /\ top_k = TOP_K
    /\ query_embedding = 0
    /\ n_results = 0
    /\ qout = NoQuery
    /\ qviews = {}

Next == Insert \/ InsertDuringQuery \/ QueryCall \/ QClamp \/ QQuery

Spec == Init /\ [][Next]_vars

\* ---------------------------------------------------------------- claims
\* A field that holds no character other than white space.
BlankField(f) == \A i \in 1..Len(f) : f[i] \in Whitespace

\* A record with an empty or missing (or all-white-space) title and description.
HasNoText(article) ==
    /\ BlankField(Get(article, "title", EmptyStr))
    /\ BlankField(Get(article, "description", EmptyStr))

\* The number of records of a batch that have a text.
WithText(articles) ==
    Cardinality({i \in 1..Len(articles) : ~HasNoText(articles[i])})

InsertReturned == ins.called /\ ins.ret.kind # "raised"

QueryDone == qpc = "done"

QueryReturned == QueryDone /\ qout.ret = "returned"

\* C1: after an Insert of a non-empty batch that returns, Count() is the count
\* before the call plus the number of records of the batch that have a text.
C1_CountGrowsByNonEmpty ==
    (InsertReturned /\ ins.articles # <<>>)
        => Count(collection) = Count(ins.before) + WithText(ins.articles)

\* C2: no two stored articles share an id, Count() is the number of stored
\* articles (of distinct ids), and an Insert keeps every article that was stored
\* before it as it was, in its place: a record whose id is taken is rejected.
C2_UniqueIds ==
    /\ \A i, j \in 1..Len(collection) :
          collection[i].id = collection[j].id => i = j
    /\ Count(collection) = Cardinality(StoredIds(collection))
    /\ ins.called =>
          /\ Len(ins.before) <= Len(collection)
          /\ SubSeq(collection, 1, Len(ins.before)) = ins.before

\* C2 witness: an Insert that stored something came with an id that was taken.
C2_Witness ==
    /\ InsertReturned
    /\ Len(collection) > Len(ins.before)
    /\ \E i \in 1..Len(ins.articles) :
          /\ ~HasNoText(ins.articles[i])
          /\ IdStr(i - 1) \in StoredIds(ins.before)

\* What get_recommendations(query_text, top_k) returns when it runs alone on the
\* collection coll and the encoder does not fail.
AnswerOn(coll) ==
    IF Count(coll) = 0 THEN qout.ret = "returned" /\ qout.recommendations = <<>>
    ELSE IF Min(top_k, Count(coll)) <= 0 THEN qout.ret = "raised"
    ELSE /\ qout.ret = "returned"
         /\ \E r \in KnnAnswers(coll, Encode(query_text),
                                Min(top_k, Count(coll))) :
               qout.recommendations =
                   Recommendations(coll, Encode(query_text), r)

\* C3: a Query that overlaps Inserts ends as it would on one of the values the
\* collection took while it ran: with all of a batch or with none of it.
C3_QuerySeesAllOrNone ==
    (QueryDone /\ ~qout.encFailed) => \E coll \in qviews : AnswerOn(coll)

\* C4: a failing TextEncoder call ends the operation as a failure, after one
\* call of the encoder, and leaves the collection as it was before the call.
C4_EncoderFailure ==
    /\ [](/\ (ins.called /\ ins.encFailed) =>
                 /\ ins.ret = RetRaised
                 /\ ins.encodeCalls = 1
                 /\ collection = ins.before
          /\ (QueryDone /\ qout.encFailed) =>
                 /\ qout.ret = "raised"
                 /\ qout.encodeCalls = 1
                 /\ qout.recommendations = <<>>
                 /\ qviews = {collection})
    /\ [][(qout'.encFailed /\ qout' # qout) => collection' = collection]_vars

\* C4 witness: an Insert of records with text on a non-empty index, failed by the
\* encoder.
C4_Witness ==
    /\ ins.called /\ ins.encFailed
    /\ WithText(ins.articles) > 0
    /\ Count(ins.before) > 0

\* C5: for a positive top_k, Query returns at most min(top_k, Count()) results,
\* with scores that do not increase from first to last.
C5_AtMostKSorted ==
    (QueryReturned /\ top_k > 0) =>
        /\ Len(qout.recommendations) <= Min(top_k, Count(collection))
        /\ \A x, y \in 1..Len(qout.recommendations) :
              x < y => qout.recommendations[x].score
                          >= qout.recommendations[y].score

\* C5 witness: two results of different scores, and a top_k above Count().
C5_Witness ==
    /\ QueryReturned
    /\ top_k > Count(collection)
    /\ Len(qout.recommendations) = 2
    /\ qout.recommendations[1].score > qout.recommendations[2].score

\* C6: a Query with a non-positive top_k ends with an error in every index state.
C6_NonPositiveRejected ==
    (QueryDone /\ top_k <= 0) => qout.ret = "raised"

\* C6 as amended: a Query with a non-positive top_k on a non-empty index ends
\* with an error and returns no result list.
C6_NonPositiveRejectedNonEmpty ==
    (QueryDone /\ top_k <= 0 /\ qout.count0 > 0) =>
        /\ qout.ret = "raised"
        /\ qout.recommendations = <<>>

\* C6 witness: a negative top_k on a non-empty index, the encoder not failing.
C6_Witness ==
    /\ QueryDone
    /\ top_k < 0
    /\ qout.count0 > 0
    /\ ~qout.encFailed
    /\ qout.ret = "raised"

\* C7: on an empty index Query returns the empty sequence, for any text and any
\* top_k, without failing and without a TextEncoder call.
C7_EmptyIndex ==
    (QueryDone /\ qout.count0 = 0) =>
        /\ qout.ret = "returned"
        /\ qout.recommendations = <<>>
        /\ qout.encodeCalls = 0
        /\ ~qout.encFailed

\* C7 witness: a Query with top_k = 0 on the empty index.
C7_Witness ==
    /\ QueryDone
    /\ qout.count0 = 0
    /\ Count(collection) = 0
    /\ top_k = 0

\* C8: an Insert of an empty batch, or of records that all have no text, stores
\* nothing, leaves the collection as it was, raises nothing and does not call
\* the TextEncoder.
C8_NothingToStore ==
    (ins.called /\ WithText(ins.articles) = 0) =>
        /\ collection = ins.before
        /\ ins.ret.kind # "raised"
        /\ ins.encodeCalls = 0
        /\ ~ins.encFailed

\* C8 witness: a batch of two records without text, on a non-empty index.
C8_Witness ==
    /\ ins.called
    /\ Len(ins.articles) = 2
    /\ WithText(ins.articles) = 0
    /\ Count(collection) > 0

\* C9: Insert returns the number of articles it stored in the call.
C9_ReturnsStoredCount ==
    InsertReturned =>
        ins.ret = [kind |-> "int", v |-> Count(collection) - Count(ins.before)]

\* C9 as amended: an Insert that does not raise returns no value (None); when
\* records survive the empty-text filter it prints their number, and it prints
\* nothing otherwise.
C9_ReturnsNone ==
    InsertReturned =>
        /\ ins.ret = RetNone
        /\ ins.printed = IF WithText(ins.articles) > 0
                         THEN WithText(ins.articles) ELSE -1

\* C9 witness: an Insert that stored two articles.
C9_Witness ==
    /\ InsertReturned
    /\ Count(collection) = Count(ins.before) + 2
====
